---- MODULE Spec2Model ----
(***************************************************************************)
(* Model of the VideoPlayer component (components/VideoPlayer.vue): the    *)
(* player state machine, its four transport sessions (WebRTC, MSE, HLS,    *)
(* MJPEG), the browser objects their callbacks are attached to, and the    *)
(* PTZ side channel (press-and-hold commands sent on a repeat timer).      *)
(*                                                                         *)
(* Spec is the player without PTZ activity; PtzSpec is the PTZ panel of a  *)
(* player in the polling mode.                                             *)
(*                                                                         *)
(* Every handler of the component runs as one task of the browser's event  *)
(* loop, so every action below is one whole handler.  A handler is written *)
(* as an operator from the state before to the state after (a record with  *)
(* one field per variable), so that play() is start(stop(w)) exactly as in *)
(* the source.                                                             *)
(***************************************************************************)
EXTENDS Integers, Sequences, FiniteSets, TLC

\* ---------------------------------------------------------------- bounds
MaxSess == 2        \* transport sessions started in one run
MaxFrames == 3      \* binary frames the relay sends on one socket
MaxEmits == 2       \* 'playing' events one peer connection may emit
MaxTimers == 2      \* PTZ repeat timers live at one time
MaxTicks == 3       \* ticks of the repeat timer counted during one press
MaxInflight == 2    \* PTZ requests awaiting their response

Sess == 1..MaxSess
Modes == {"webrtc", "mse", "hls", "mjpeg"}
Srcs == <<"cam1", "cam2">>  \* the identifiers props.src takes, in order
AutoplayVals == {"true", "false", "undefined"}
\* what the platform offers for HLS: Hls.isSupported(), else canPlayType()
Platforms == {"hlsjs", "native", "none"}

\* The platform is a fact of the browser that only startHLS reads: it is left
\* "unknown" until the first start in mode m = 'hls' reads it, and fixed from then on.
Query(w, m, pf) ==
  IF m = "hls" /\ w.platform = "unknown" THEN [w EXCEPT !.platform = pf] ELSE w

VARIABLES
  mounted,          \* "setup" | "mounted" | "unmounted" (template refs are set only while mounted)
  src, autoplay,    \* props.src, props.autoplay
  platform,         \* HLS capability of the browser
  currentMode, isLoading, isPlaying, error, connectionState,
  pc, ws, hls,      \* module-level handles: 0 is null, otherwise the session that created the object
  video,            \* the <video> element: src, srcObject, style.display, pending loadedmetadata
  imgs,             \* <img> elements in the container, in document order, by creating session
  listeners,        \* sessions whose 'loadedmetadata' listener is registered on the <video>
  nsess,            \* number of sessions started so far
  live,             \* the session started by the last play() and not stopped since; 0 if none
  sess,             \* per session: its browser objects and the position of its async function
  emitted,          \* events emitted to the parent since the last call of play(),
                    \* stop() or switchMode() began: how many of each kind
  ptz               \* the PTZ side channel: props, Tapo refs, repeat timers, requests

vars == <<mounted, src, autoplay, platform, currentMode, isLoading, isPlaying, error,
          connectionState, pc, ws, hls, video, imgs, listeners, nsess, live, sess, emitted,
          ptz>>

\* the state as one record, and its use as the next state
Cur ==
  [mounted |-> mounted, src |-> src, autoplay |-> autoplay, platform |-> platform,
   currentMode |-> currentMode, isLoading |-> isLoading, isPlaying |-> isPlaying,
   error |-> error, connectionState |-> connectionState, pc |-> pc, ws |-> ws, hls |-> hls,
   video |-> video, imgs |-> imgs, listeners |-> listeners, nsess |-> nsess, live |-> live,
   sess |-> sess, emitted |-> emitted, ptz |-> ptz]

Apply(w) ==
  /\ mounted' = w.mounted /\ src' = w.src /\ autoplay' = w.autoplay /\ platform' = w.platform
  /\ currentMode' = w.currentMode /\ isLoading' = w.isLoading /\ isPlaying' = w.isPlaying
  /\ error' = w.error /\ connectionState' = w.connectionState
  /\ pc' = w.pc /\ ws' = w.ws /\ hls' = w.hls
  /\ video' = w.video /\ imgs' = w.imgs /\ listeners' = w.listeners
  /\ nsess' = w.nsess /\ live' = w.live /\ sess' = w.sess /\ emitted' = w.emitted
  /\ ptz' = w.ptz

\* ------------------------------------------------------- browser objects
\* mode is the argument of the last 'modeChange'
NoEvents == [playing |-> 0, error |-> 0, modeChange |-> 0, mode |-> ""]

emit(w, e) == [w EXCEPT !.emitted[e] = @ + 1]

\* emit('modeChange', mode)
emitMode(w, m) == [emit(w, "modeChange") EXCEPT !.emitted.mode = m]

NoVideo == [src |-> "", of |-> 0, srcObject |-> 0, hidden |-> FALSE, meta |-> FALSE]

NoSess ==
  [src |-> "", teardowns |-> 0,
   \* RTCPeerConnection and the async function startWebRTC
   pos |-> "none", tgt |-> 0, pcState |-> "none", hasLocal |-> FALSE, hasRemote |-> FALSE,
   gath |-> "new", gathHandler |-> 0, ice |-> "new", tracked |-> FALSE,
   answerOf |-> 0,            \* the session whose POST returned the remote description
   post |-> "none",           \* the non-2xx status the function of this connection received
   \* WebSocket, the relay behind it, MediaSource and the sourceopen closure
   wsState |-> "none", wsErr |-> FALSE, onmessage |-> 0, onopen |-> 0, mseSent |-> 0,
   srv |-> "idle", nextFrame |-> 1, ms |-> "none", sourceopen |-> "no",
   sourceBuffer |-> FALSE, queue |-> <<>>, isUpdating |-> FALSE, updating |-> FALSE,
   updateend |-> FALSE, appended |-> <<>>,
   \* Hls engine, <img> element
   hlsState |-> "none", imgState |-> "none"]

refs(w) == w.mounted = "mounted"      \* videoRef.value and containerRef.value are non-null

\* ------------------------------------------------------------------ stop
\* pc.close(): a closed connection fires no event and settles none of its
\* pending promises, so a function instance awaiting one never continues
abandoned(w, p, s) ==
  \/ s = p /\ w.sess[s].pos \in {"createOffer", "setLocal", "gather"}
  \/ w.sess[s].pos = "setRemote" /\ w.sess[s].tgt = p

closedPc(w, p) ==
  [s \in Sess |->
     LET r == IF abandoned(w, p, s)
                THEN [w.sess[s] EXCEPT !.pos = "over", !.tgt = 0]
                ELSE w.sess[s]
     IN  IF s = p
           THEN [r EXCEPT !.pcState = "closed", !.hasLocal = FALSE, !.hasRemote = FALSE,
                          !.gath = "new", !.gathHandler = 0, !.ice = "closed",
                          !.tracked = FALSE, !.answerOf = 0, !.post = "none",
                          !.teardowns = @ + 1]
           ELSE r]

\* pc.close() without pc = null
closePc_keepsHandle(w) ==
  IF w.pc # 0
    THEN [w EXCEPT !.sess = closedPc(w, w.pc)]
    ELSE w

closePc(w) ==
  IF w.pc # 0
    THEN [w EXCEPT !.sess = closedPc(w, w.pc), !.pc = 0]
    ELSE w

\* ws.close(): no 'open' or 'message' is dispatched on the socket afterwards;
\* close() on a socket that is still connecting fails the connection, and
\* the browser then fires 'error' on it
closedWs(r) ==
  [r EXCEPT !.wsState = "closed", !.onmessage = 0, !.onopen = 0, !.srv = "idle",
            !.nextFrame = 1]

closeWs(w) ==
  IF w.ws # 0
    THEN [w EXCEPT !.sess[w.ws] =
                      [closedWs(@) EXCEPT !.wsErr = @ \/ (w.sess[w.ws].wsState = "connecting"),
                                          !.teardowns = @ + 1],
                   !.ws = 0]
    ELSE w

destroyHls(w) ==
  IF w.hls # 0
    THEN [w EXCEPT !.sess[w.hls].hlsState = "destroyed", !.sess[w.hls].teardowns = @ + 1,
                   !.hls = 0]
    ELSE w

\* srcObject = null; src = ''; style.display = '': the element's load algorithm
\* detaches an attached MediaSource (its source buffers are removed and take
\* no further append) and drops the element's queued events
detached(r) ==
  [r EXCEPT !.ms = "closed", !.sourceBuffer = FALSE, !.queue = <<>>, !.isUpdating = FALSE,
            !.updating = FALSE, !.updateend = FALSE, !.appended = <<>>,
            !.sourceopen = IF @ = "queued" THEN "queued" ELSE "no"]

resetVideo(w) ==
  IF refs(w)
    THEN LET w1 == IF w.video.src = "blob"
                     THEN [w EXCEPT !.sess[w.video.of] = detached(@)]
                     ELSE w
         IN  [w1 EXCEPT !.video = NoVideo]
    ELSE w

\* a stop() that leaves the <img> in the container
removeImg_keeps(w) == w

\* containerRef.value?.querySelector('img')?.remove(): the first <img> only
removeImg(w) ==
  IF refs(w) /\ w.imgs # <<>>
    THEN [w EXCEPT !.sess[Head(w.imgs)].teardowns = @ + 1, !.imgs = Tail(w.imgs)]
    ELSE w

\* live and the src of the session's URL are bookkeeping of the model: the
\* session that was live is stopped
stopped(w) == IF w.live # 0 THEN [w EXCEPT !.sess[w.live].src = "", !.live = 0] ELSE w

\* a stop() that also resets error
stop_clearsError(w) ==
  [stopped(removeImg(resetVideo(destroyHls(closeWs(closePc(w))))))
     EXCEPT !.isPlaying = FALSE, !.isLoading = FALSE, !.error = "null"]

stop(w) ==
  [stopped(removeImg(resetVideo(destroyHls(closeWs(closePc(w))))))
     EXCEPT !.isPlaying = FALSE, !.isLoading = FALSE]

\* ----------------------------------------------------------- start<Mode>
\* the synchronous part of each start function; s is the new session
newSess(w, s) ==
  [w EXCEPT !.nsess = s, !.live = s, !.sess[s].src = w.src]

startWebRTC(w) ==
  LET s == w.nsess + 1 IN
  [newSess(w, s) EXCEPT
     !.isLoading = TRUE, !.error = "null", !.connectionState = "connecting",
     !.pc = s, !.sess[s].pcState = "open", !.sess[s].pos = "createOffer"]

startMSE(w) ==
  LET s == w.nsess + 1
      w1 == [newSess(w, s) EXCEPT
               !.isLoading = TRUE, !.error = "null",
               !.ws = s, !.sess[s].wsState = "connecting", !.sess[s].ms = "closed"]
  IN  IF refs(w1)
        THEN [w1 EXCEPT !.video.src = "blob", !.video.of = s]
        ELSE w1

startHLS(w) ==
  LET s == w.nsess + 1
      w1 == [newSess(w, s) EXCEPT !.isLoading = TRUE, !.error = "null"]
  IN  IF w1.platform = "hlsjs" /\ refs(w1)
        THEN [w1 EXCEPT !.hls = s, !.sess[s].hlsState = "loading"]
      ELSE IF w1.platform = "native" /\ refs(w1)
        THEN [w1 EXCEPT !.video.src = "m3u8", !.video.of = s, !.video.meta = TRUE,
                        !.listeners = @ \cup {s}]
      ELSE [w1 EXCEPT !.error = "HLS is not supported in this browser",
                      !.isLoading = FALSE]

startMJPEG(w) ==
  LET s == w.nsess + 1
      w1 == [newSess(w, s) EXCEPT
               !.isLoading = TRUE, !.error = "null", !.sess[s].imgState = "pending"]
      w2 == IF refs(w1) THEN [w1 EXCEPT !.video.hidden = TRUE] ELSE w1
  IN  IF refs(w2) THEN [w2 EXCEPT !.imgs = Append(@, s)] ELSE w2

\* ------------------------------------------------------ play, switchMode
\* a switch that takes the first case whatever the mode
start_alwaysWebRTC(w) == startWebRTC(w)

\* switch (currentMode.value)
start(w) ==
  CASE w.currentMode = "webrtc" -> startWebRTC(w)
    [] w.currentMode = "mse"    -> startMSE(w)
    [] w.currentMode = "hls"    -> startHLS(w)
    [] w.currentMode = "mjpeg"  -> startMJPEG(w)

\* play() that starts the new session without stopping the old one
play_skipsStop(w) == start(w)

play(w) == start(stop(w))

\* switchMode() that starts the new session directly
switchMode_skipsStop(w, m) ==
  start(emitMode([w EXCEPT !.currentMode = m], m))

\* switchMode() without emit('modeChange', mode)
switchMode_noEmit(w, m) == play([w EXCEPT !.currentMode = m])

switchMode(w, m) ==
  play(emitMode([w EXCEPT !.currentMode = m], m))

\* ------------------------------------------------------------------ PTZ
\* the commands of the PTZ panel: the held buttons, and Home, which is clicked
HeldCommands == {"up", "zoom_in"}
PtzCommands == HeldCommands \cup {"home"}
Timers == 1..MaxTimers
Routes == {"custom", "tapo", "relay"}
\* how a handler call or a fetch ends: the handler resolves or the response is
\* 2xx, the response is 404 or another status, or an exception is thrown (the
\* handler rejects, the fetch fails)
Results == {"ok", "404", "500", "exception"}

\* direction of a Tapo PTZ step, in degrees
directionMap == [up |-> 0, right |-> 90, down |-> 180, left |-> 270]

\* The PTZ state of a component that was set up with credentials stored or not
\* (st), with or without a camera address (ip) and a custom handler (h).
\* useTapo() creates its refs when it is called, from localStorage: the
\* component keeps the values read at setup.
PtzSetup(st, ip, h) ==
  [onPtz |-> h,                     \* props.onPtz is supplied
   effectiveCameraIp |-> ip,        \* props.cameraIp || tapoCameraIp is non-empty
   storage |-> st,                  \* localStorage holds tapoUsername and tapoPassword
   isTapoConfigured |-> st,         \* tapoUsername && tapoPassword, of the component's refs
   ptzInterval |-> 0,               \* 0 is null, otherwise the id setInterval returned
   timers |-> [i \in Timers |-> ""],    \* the command each live repeat timer sends
   ptzLoading |-> FALSE,
   inflight |-> 0,                  \* requests and handler calls awaiting their result
   pending |-> [r \in Routes |-> 0],    \* the same, by route
   outcome |-> "",                  \* how the call of sendPtzCommand that ended last ended
   sent |-> [command |-> "", route |-> ""],     \* the last request issued
   \* the press in progress or the last one: its command, the ticks of its
   \* timer, the calls of sendPtzCommand and the requests issued since it began;
   \* counted while it is the only source of commands (single)
   pressed |-> "", single |-> FALSE, ticks |-> 0, calls |-> 0, reqs |-> 0]

\* a command handed to a route: the handler call or the fetch is pending
request(w, c, r) ==
  [w EXCEPT !.ptz.ptzLoading = TRUE, !.ptz.inflight = @ + 1, !.ptz.pending[r] = @ + 1,
            !.ptz.sent = [command |-> c, route |-> r],
            !.ptz.reqs = IF w.ptz.single THEN @ + 1 ELSE @]

\* sendPtzCommand up to its await
sendPtzCommand(w, c) ==
  LET w1 == [w EXCEPT !.ptz.calls = IF w.ptz.single THEN @ + 1 ELSE @] IN
  IF w1.ptz.onPtz
    THEN IF c = "home"
           THEN [w1 EXCEPT !.ptz.ptzLoading = FALSE]     \* try { warn } finally { ... }
           ELSE request(w1, c, "custom")
  ELSE IF w1.ptz.isTapoConfigured /\ w1.ptz.effectiveCameraIp
    THEN IF c \in DOMAIN directionMap
           THEN request(w1, c, "tapo")
           ELSE w1                                       \* not supported for Tapo PTZ
  ELSE request(w1, c, "relay")

\* What sendPtzCommand does with the result of its await.  The custom route has
\* try/finally only: a failing handler rejects the promise sendPtzCommand
\* returned, which no caller awaits.  The Tapo route throws on every non-2xx
\* status and catches it; the relay route warns on 404, throws on any other
\* non-2xx status and catches it.
PtzOutcome(r, res) ==
  CASE res = "ok"                   -> "ok"
    [] r = "custom"                 -> "rejected"
    [] r = "relay" /\ res = "404"   -> "warned"
    [] OTHER                        -> "logged"

\* a continuation that reports a failed command as a playback error
afterPtzAwait_surfacesError(w, r, res) ==
  LET w1 == [w EXCEPT !.ptz.ptzLoading = FALSE, !.ptz.inflight = @ - 1,
                      !.ptz.pending[r] = @ - 1, !.ptz.outcome = PtzOutcome(r, res)]
  IN  IF res = "ok" THEN w1 ELSE [w1 EXCEPT !.error = "PTZ failed", !.isLoading = FALSE]

\* sendPtzCommand after its await, on route r: catch and finally
afterPtzAwait(w, r, res) ==
  [w EXCEPT !.ptz.ptzLoading = FALSE, !.ptz.inflight = @ - 1, !.ptz.pending[r] = @ - 1,
            !.ptz.outcome = PtzOutcome(r, res)]

\* startPtz without the immediate sendPtzCommand(command)
startPtz_timerOnly(w, c, id) ==
  [w EXCEPT !.ptz.ptzInterval = id, !.ptz.timers[id] = c]

\* id is the handle window.setInterval returns
startPtz(w, c, id) ==
  [sendPtzCommand(w, c) EXCEPT !.ptz.ptzInterval = id, !.ptz.timers[id] = c]

stopPtz(w) ==
  IF w.ptz.ptzInterval # 0
    THEN [w EXCEPT !.ptz.timers[w.ptz.ptzInterval] = "", !.ptz.ptzInterval = 0]
    ELSE w

\* --------------------------------------------------------- user's actions
InitPlayer ==
  /\ mounted = "setup"
  /\ src = Srcs[1]
  /\ autoplay \in AutoplayVals
  /\ platform = "unknown"
  /\ currentMode \in Modes              \* props.mode || 'webrtc'
  /\ isLoading = TRUE /\ isPlaying = FALSE /\ error = "null" /\ connectionState = ""
  /\ pc = 0 /\ ws = 0 /\ hls = 0
  /\ video = NoVideo /\ imgs = <<>> /\ listeners = {}
  /\ nsess = 0 /\ live = 0
  /\ sess = [s \in Sess |-> NoSess]
  /\ emitted = NoEvents

\* a player used without PTZ: no handler, no address, no credentials
Init == InitPlayer /\ ptz = PtzSetup(FALSE, FALSE, FALSE)

CanStart == nsess < MaxSess

\* the state in which a call of play(), stop() or switchMode() begins
Call == [Cur EXCEPT !.emitted = NoEvents]

\* onMounted
Mount ==
  /\ mounted = "setup"
  /\ LET w == [Call EXCEPT !.mounted = "mounted"] IN
     IF autoplay # "false"
       THEN \E pf \in Platforms : Apply(play(Query(w, currentMode, pf)))
       ELSE Apply([Cur EXCEPT !.mounted = "mounted"])

\* the exposed play(), the Retry button, the play button while not playing
Play ==
  /\ mounted = "mounted" /\ CanStart
  /\ \E pf \in Platforms : Apply(play(Query(Call, currentMode, pf)))

\* the exposed stop(), the play button while playing
Stop ==
  /\ mounted = "mounted"
  /\ Apply(stop(Call))

SwitchMode ==
  /\ mounted = "mounted" /\ CanStart
  /\ \E m \in Modes, pf \in Platforms : Apply(switchMode(Query(Call, m, pf), m))

\* watch(() => props.src)
SrcChange ==
  /\ mounted = "mounted" /\ src = Srcs[1]
  /\ autoplay = "true" => CanStart
  /\ LET w == [Call EXCEPT !.src = Srcs[2]] IN
     IF autoplay = "true"
       THEN \E pf \in Platforms : Apply(play(Query(w, currentMode, pf)))
       ELSE Apply([Cur EXCEPT !.src = Srcs[2]])

\* onUnmounted: the template refs are already null when the hook runs
Unmount ==
  /\ mounted = "mounted"
  /\ Apply(stopPtz(stop([Call EXCEPT !.mounted = "unmounted"])))

UserStep == Mount \/ Play \/ Stop \/ SwitchMode \/ SrcChange \/ Unmount

\* ------------------------------------------- WebRTC: the async function
\* catch (e) of startWebRTC, run by the function instance of session s
\* the catch block without emit('error', err)
catchWebRTC_noEmit(w, s, msg) ==
  [w EXCEPT !.error = msg, !.isLoading = FALSE, !.sess[s].pos = "over", !.sess[s].tgt = 0]

catchWebRTC(w, s, msg) ==
  [emit(w, "error") EXCEPT !.error = msg, !.isLoading = FALSE,
                          !.sess[s].pos = "over", !.sess[s].tgt = 0]

\* if (!response.ok) throw new Error(`HTTP ${response.status}: ...`)
notOk(w, s, status) ==
  LET w1 == catchWebRTC(w, s, status) IN
  IF w.sess[s].pcState = "open" THEN [w1 EXCEPT !.sess[s].post = status] ELSE w1

\* the fetch of the negotiation POST, body JSON.stringify(pc.localDescription)
callFetch(w, s) ==
  IF w.pc = 0
    THEN catchWebRTC(w, s, "TypeError: pc is null")
    ELSE [w EXCEPT !.sess[s].pos = "fetch"]

\* the executor of the gathering promise: it reads the module-level pc
gatherWait(w, s) ==
  IF w.pc = 0
    THEN catchWebRTC(w, s, "TypeError: pc is null")
  ELSE IF w.sess[w.pc].gath = "complete"
    THEN callFetch(w, s)
  ELSE [w EXCEPT !.sess[w.pc].gathHandler = s, !.sess[s].pos = "gather"]

\* after await pc.createOffer(): pc.setLocalDescription(offer)
afterCreateOffer(w, s) ==
  IF w.pc = 0
    THEN catchWebRTC(w, s, "TypeError: pc is null")
    ELSE [w EXCEPT !.sess[s].pos = "setLocal", !.sess[w.pc].hasLocal = TRUE]

\* after await response.json(): pc.setRemoteDescription(answer)
afterJson(w, s) ==
  IF w.pc = 0
    THEN catchWebRTC(w, s, "TypeError: pc is null")
    ELSE [w EXCEPT !.sess[s].pos = "setRemote", !.sess[s].tgt = w.pc]

\* An operation of a peer connection settles only while the connection is
\* open: once closed, its pending promises are never settled.
ResumeCreateOffer(s) ==
  /\ sess[s].pos = "createOffer" /\ sess[s].pcState = "open"
  /\ Apply(afterCreateOffer(Cur, s))

ResumeSetLocal(s) ==
  /\ sess[s].pos = "setLocal" /\ sess[s].pcState = "open"
  /\ Apply(gatherWait(Cur, s))

\* the response of the POST: 2xx, another status, or a network failure.  After
\* a 2xx the function awaits response.json(), which touches no state of the
\* component: the two awaits are one step here.
ResumeFetch(s) ==
  /\ sess[s].pos = "fetch"
  /\ \E r \in {"ok", "HTTP 500", "Failed to fetch"} :
       CASE r = "ok"       -> Apply(afterJson(Cur, s))
         [] r = "HTTP 500" -> Apply(notOk(Cur, s, r))
         [] OTHER          -> Apply(catchWebRTC(Cur, s, r))

\* the answer is applied if the target connection has a local offer and no
\* remote description yet; otherwise setRemoteDescription rejects
ResumeSetRemote(s) ==
  /\ sess[s].pos = "setRemote" /\ sess[sess[s].tgt].pcState = "open"
  /\ LET p == sess[s].tgt IN
     \E ok \in BOOLEAN :
       /\ ok => sess[p].hasLocal /\ ~sess[p].hasRemote
       /\ IF ok
            THEN Apply([Cur EXCEPT !.sess[p].hasRemote = TRUE, !.sess[p].answerOf = s,
                                  !.sess[s].pos = "over", !.sess[s].tgt = 0])
            ELSE Apply(catchWebRTC(Cur, s, "InvalidStateError"))

\* ------------------------------------ WebRTC: events of a peer connection
\* pc.onicegatheringstatechange, installed by the function instance h
onicegatheringstatechange(w, h) ==
  IF w.pc = 0
    THEN w                                        \* pc!.iceGatheringState throws in the handler
  ELSE IF w.sess[w.pc].gath = "complete" /\ w.sess[h].pos = "gather"
    THEN callFetch(w, h)                          \* resolve(): the function continues
  ELSE w

GatherNext(g) == IF g = "new" THEN "gathering" ELSE "complete"

GatheringChange(p) ==
  /\ sess[p].pcState = "open" /\ sess[p].hasLocal /\ sess[p].gath # "complete"
  /\ LET w == [Cur EXCEPT !.sess[p].gath = GatherNext(@)] IN
     IF sess[p].gathHandler # 0
       THEN Apply(onicegatheringstatechange(w, sess[p].gathHandler))
       ELSE Apply(w)

\* pc.ontrack
ontrack(w, p, hasStream) ==
  IF refs(w) /\ hasStream
    THEN [w EXCEPT !.video.srcObject = p, !.video.meta = (w.listeners # {}),
                   !.isLoading = FALSE]
    ELSE w

Track(p) ==
  /\ sess[p].pcState = "open" /\ sess[p].hasRemote /\ ~sess[p].tracked
  /\ \E hasStream \in BOOLEAN :
       Apply(ontrack([Cur EXCEPT !.sess[p].tracked = TRUE], p, hasStream))

\* a handler that tears the session down when connectivity is lost
oniceconnectionstatechange_stops(w, p) ==
  LET st == IF w.pc = 0 THEN "" ELSE w.sess[w.pc].ice
      w1 == [w EXCEPT !.connectionState = st]
  IN  IF st \in {"connected", "completed"}
        THEN [emit(w1, "playing") EXCEPT !.isLoading = FALSE, !.isPlaying = TRUE]
      ELSE IF st \in {"failed", "disconnected"}
        THEN stop([w1 EXCEPT !.error = "WebRTC connection failed"])
      ELSE w1

\* pc.oniceconnectionstatechange, a closure of session p reading the module-level pc
oniceconnectionstatechange(w, p) ==
  LET st == IF w.pc = 0 THEN "" ELSE w.sess[w.pc].ice
      w1 == [w EXCEPT !.connectionState = st]
  IN  IF st \in {"connected", "completed"}
        THEN [emit(w1, "playing") EXCEPT !.isLoading = FALSE, !.isPlaying = TRUE]
      ELSE IF st \in {"failed", "disconnected"}
        THEN [w1 EXCEPT !.error = "WebRTC connection failed"]
      ELSE w1

\* The relay answers connectivity checks only of the connection whose offer it
\* was sent (the checks carry the ICE credentials of that offer): a connection
\* that was given the answer to another connection's offer never connects.
IceNext(st, matched) ==
  CASE st = "new"                      -> {"checking"}
    [] st = "checking" /\ matched      -> {"connected", "failed"}
    [] st = "checking" /\ ~matched     -> {"failed"}
    [] st = "connected"                -> {"completed", "disconnected"}
    [] st = "completed"                -> {"disconnected"}
    [] st = "disconnected"             -> {"connected", "failed"}
    [] OTHER                           -> {}

IceChange(p) ==
  /\ sess[p].pcState = "open" /\ sess[p].hasRemote
  /\ \E st \in IceNext(sess[p].ice, sess[p].answerOf = p) :
       /\ st \in {"connected", "completed"} => emitted.playing < MaxEmits
       /\ Apply(oniceconnectionstatechange([Cur EXCEPT !.sess[p].ice = st], p))

WebRTCStep(s) ==
  \/ ResumeCreateOffer(s) \/ ResumeSetLocal(s) \/ ResumeFetch(s)
  \/ ResumeSetRemote(s) \/ GatheringChange(s) \/ Track(s) \/ IceChange(s)

\* ------------------------------------------------ MSE: socket and closure
\* ws.onerror, set by startMSE on its own socket
onerrorWs(w) == [w EXCEPT !.error = "MSE connection failed", !.isLoading = FALSE]

\* the 'sourceopen' listener of session s: it creates the closure (sourceBuffer,
\* queue, isUpdating) and installs it on whatever socket ws holds at that time
onsourceopen(w, s) ==
  IF w.ws = 0
    THEN w                                        \* ws!.onmessage = ... throws in the listener
    ELSE [w EXCEPT !.sess[w.ws].onmessage = s, !.sess[w.ws].onopen = s]

\* ws.onopen of closure t
onopenWs(w, t) ==
  IF w.ws = 0
    THEN w
    ELSE [w EXCEPT !.sess[w.ws].mseSent = @ + 1, !.sess[w.ws].srv = "mime"]

\* sourceBuffer.appendBuffer(f)
appendBuffer(w, t, f) ==
  [w EXCEPT !.sess[t].appended = Append(@, f), !.sess[t].updating = TRUE,
            !.video.meta = @ \/ (refs(w) /\ w.listeners # {} /\ w.sess[t].appended = <<>>)]

\* the test without the local flag, and no test at all
CanAppendNow_ignoresFlag(r) == ~r.updating

CanAppendNow_always(r) == TRUE

\* the test of the binary branch: !isUpdating && !sourceBuffer.updating
CanAppendNow(r) == ~r.isUpdating /\ ~r.updating

\* ws.onmessage of closure t, text frame {type: 'mse', value: mimeType}
onmessageText(w, t, supported) ==
  IF supported /\ w.sess[t].ms = "open"           \* addSourceBuffer throws on a closed MediaSource
    THEN [w EXCEPT !.sess[t].sourceBuffer = TRUE]
    ELSE w

\* ws.onmessage of closure t, binary frame f
onmessageBinary(w, t, f) ==
  IF w.sess[t].sourceBuffer
    THEN LET w1 == IF CanAppendNow(w.sess[t])
                     THEN [appendBuffer(w, t, f) EXCEPT !.sess[t].isUpdating = TRUE]
                     ELSE [w EXCEPT !.sess[t].queue = Append(@, f)]
         IN  [w1 EXCEPT !.isLoading = FALSE, !.isPlaying = TRUE]
    ELSE w

\* the 'updateend' listener of closure t
onupdateend(w, t) ==
  LET w1 == [w EXCEPT !.sess[t].isUpdating = FALSE] IN
  IF w1.sess[t].queue # <<>> /\ w1.sess[t].sourceBuffer /\ ~w1.sess[t].updating
    THEN [appendBuffer([w1 EXCEPT !.sess[t].queue = Tail(@)], t, Head(w1.sess[t].queue))
            EXCEPT !.sess[t].isUpdating = TRUE]
    ELSE w1

\* the <video> attaches the MediaSource of its blob URL and queues 'sourceopen'
AttachMediaSource(s) ==
  /\ video.src = "blob" /\ video.of = s
  /\ sess[s].ms = "closed" /\ sess[s].sourceopen = "no"
  /\ Apply([Cur EXCEPT !.sess[s].ms = "open", !.sess[s].sourceopen = "queued"])

\* 'sourceopen' tasks run in the order they were queued
SourceOpen(s) ==
  /\ sess[s].sourceopen = "queued"
  /\ \A t \in Sess : t < s => sess[t].sourceopen # "queued"
  /\ Apply(onsourceopen([Cur EXCEPT !.sess[s].sourceopen = "fired"], s))

WsOpen(s) ==
  /\ sess[s].wsState = "connecting"
  /\ LET w == [Cur EXCEPT !.sess[s].wsState = "open"] IN
     IF sess[s].onopen # 0 THEN Apply(onopenWs(w, sess[s].onopen)) ELSE Apply(w)

\* the relay answers {type:'mse'} with the MIME type of the stream
WsMime(s) ==
  /\ sess[s].wsState = "open" /\ sess[s].srv = "mime"
  /\ \E supported \in BOOLEAN :
       LET w == [Cur EXCEPT !.sess[s].srv = "stream"] IN
       IF sess[s].onmessage # 0
         THEN Apply(onmessageText(w, sess[s].onmessage, supported))
         ELSE Apply(w)

\* then it sends the binary frames 1, 2, ... in order
WsFrame(s) ==
  /\ sess[s].wsState = "open" /\ sess[s].srv = "stream" /\ sess[s].nextFrame <= MaxFrames
  /\ LET w == [Cur EXCEPT !.sess[s].nextFrame = @ + 1] IN
     IF sess[s].onmessage # 0
       THEN Apply(onmessageBinary(w, sess[s].onmessage, sess[s].nextFrame))
       ELSE Apply(w)

\* the connection fails: 'error' is fired on the socket
WsFail(s) ==
  /\ sess[s].wsState \in {"connecting", "open"}
  /\ Apply(onerrorWs([Cur EXCEPT !.sess[s] = closedWs(@)]))

\* the 'error' of a socket closed while it was connecting
WsError(s) ==
  /\ sess[s].wsErr
  /\ Apply(onerrorWs([Cur EXCEPT !.sess[s].wsErr = FALSE]))

\* the relay closes the socket: the component has no onclose
WsClose(s) ==
  /\ sess[s].wsState = "open"
  /\ Apply([Cur EXCEPT !.sess[s] = closedWs(@)])

\* the buffer finishes an append: updating becomes false, 'updateend' is queued
AppendDone(s) ==
  /\ sess[s].updating
  /\ Apply([Cur EXCEPT !.sess[s].updating = FALSE, !.sess[s].updateend = TRUE])

UpdateEnd(s) ==
  /\ sess[s].updateend
  /\ Apply(onupdateend([Cur EXCEPT !.sess[s].updateend = FALSE], s))

MSEStep(s) ==
  \/ AttachMediaSource(s) \/ SourceOpen(s) \/ WsOpen(s) \/ WsMime(s) \/ WsFrame(s)
  \/ WsFail(s) \/ WsError(s) \/ WsClose(s) \/ AppendDone(s) \/ UpdateEnd(s)

\* ---------------------------------------------------------- HLS and MJPEG
\* hls.on(MANIFEST_PARSED)
\* the handler without isLoading.value = false
onManifestParsed_keepsLoading(w) == [emit(w, "playing") EXCEPT !.isPlaying = TRUE]

onManifestParsed(w) ==
  [emit(w, "playing") EXCEPT !.isLoading = FALSE, !.isPlaying = TRUE]

\* an ERROR handler that falls back to the polling mode on a fatal error
onHlsError_fallsBack(w, fatal) ==
  IF fatal /\ w.nsess < MaxSess THEN switchMode(w, "mjpeg") ELSE w

\* hls.on(ERROR)
onHlsError(w, fatal) ==
  IF fatal THEN [w EXCEPT !.error = "HLS Error", !.isLoading = FALSE] ELSE w

ManifestParsed(s) ==
  /\ sess[s].hlsState = "loading"
  /\ Apply(onManifestParsed([Cur EXCEPT !.sess[s].hlsState = "parsed"]))

HlsError(s) ==
  /\ sess[s].hlsState \in {"loading", "parsed"}
  /\ \E fatal \in BOOLEAN :
       Apply(onHlsError([Cur EXCEPT !.sess[s].hlsState = IF fatal THEN "failed" ELSE @],
                        fatal))

\* the 'loadedmetadata' listeners that startHLS added to the <video> on the
\* native path; none is ever removed, and all of them run on each event.
\* video.meta says that the element has a resource whose metadata is about to
\* load; it is tracked only while a listener exists.
onloadedmetadata(w) == [w EXCEPT !.isLoading = FALSE, !.isPlaying = TRUE]

LoadedMetadata ==
  /\ mounted = "mounted" /\ video.meta /\ listeners # {}
  /\ Apply(onloadedmetadata([Cur EXCEPT !.video.meta = FALSE]))

\* img.onload, img.onerror: an <img> removed from the container keeps loading
onloadImg(w) ==
  [emit(w, "playing") EXCEPT !.isLoading = FALSE, !.isPlaying = TRUE]

onerrorImg(w) == [w EXCEPT !.error = "Failed to load MJPEG stream", !.isLoading = FALSE]

ImgLoad(s) ==
  /\ sess[s].imgState = "pending"
  /\ Apply(onloadImg([Cur EXCEPT !.sess[s].imgState = "over"]))

ImgError(s) ==
  /\ sess[s].imgState = "pending"
  /\ Apply(onerrorImg([Cur EXCEPT !.sess[s].imgState = "over"]))

HLSStep(s) == ManifestParsed(s) \/ HlsError(s)

MJPEGStep(s) == ImgLoad(s) \/ ImgError(s)

SessionStep(s) == WebRTCStep(s) \/ MSEStep(s) \/ HLSStep(s) \/ MJPEGStep(s)

Next == UserStep \/ LoadedMetadata \/ \E s \in Sess : SessionStep(s)

Spec == Init /\ [][Next]_vars

\* ---------------------------------------------------------- PTZ: actions
\* The PTZ panel is rendered while the player is playing (v-if="showPtzPanel
\* && isPlaying"): its buttons receive events only then.
PanelShown == mounted = "mounted" /\ isPlaying

\* mousedown or touchstart on a held button; any number of them may come
\* before a press-end (a second mouse button, a second finger)
PtzPress ==
  /\ PanelShown /\ ptz.inflight < MaxInflight
  /\ \E c \in HeldCommands, id \in Timers :
       /\ ptz.timers[id] = "" /\ \A j \in Timers : j < id => ptz.timers[j] # ""
       /\ LET alone == \A j \in Timers : ptz.timers[j] = ""
              w == [Cur EXCEPT !.ptz.pressed = c, !.ptz.single = alone,
                               !.ptz.ticks = 0, !.ptz.calls = 0, !.ptz.reqs = 0]
          IN  Apply(startPtz(w, c, id))

\* mouseup, mouseleave or touchend on a held button
PtzRelease ==
  /\ PanelShown
  /\ Apply(stopPtz(Cur))

\* click on Home
PtzHome ==
  /\ PanelShown /\ ptz.inflight < MaxInflight
  /\ Apply(sendPtzCommand([Cur EXCEPT !.ptz.single = FALSE], "home"))

\* the callback of a live repeat timer
PtzTick(id) ==
  /\ ptz.timers[id] # "" /\ ptz.inflight < MaxInflight
  /\ ptz.single => ptz.ticks < MaxTicks
  /\ LET w == [Cur EXCEPT !.ptz.ticks = IF ptz.single THEN @ + 1 ELSE @] IN
     Apply(sendPtzCommand(w, ptz.timers[id]))

\* a pending handler call or fetch settles, in any order and with any result
PtzSettle ==
  \E r \in Routes, res \in Results :
    /\ ptz.pending[r] > 0
    /\ Apply(afterPtzAwait(Cur, r, res))

\* the parent supplies or withdraws the custom handler
SetOnPtz ==
  /\ mounted # "unmounted"
  /\ Apply([Cur EXCEPT !.ptz.onPtz = ~@])

\* the Tapo panel's saveConfig writes the credentials to localStorage, or
\* they are removed from it
SaveConfig ==
  /\ Apply([Cur EXCEPT !.ptz.storage = ~@])

PtzStep ==
  \/ PtzPress \/ PtzRelease \/ PtzHome \/ PtzSettle \/ SetOnPtz \/ SaveConfig
  \/ \E id \in Timers : PtzTick(id)

\* a player in the polling mode with its PTZ panel, in every configuration;
\* one playback, from mount to stop or unmount
PtzInit ==
  /\ InitPlayer /\ currentMode = "mjpeg" /\ autoplay = "true"
  /\ \E st, ip, h \in BOOLEAN : ptz = PtzSetup(st, ip, h)

PtzNext ==
  \/ Mount \/ Stop \/ Unmount
  \/ \E s \in Sess : MJPEGStep(s)
  \/ PtzStep

PtzSpec == PtzInit /\ [][PtzNext]_vars

\* ================================================================ claims
\* a session owns a live resource: an open peer connection, a socket that is
\* not closed, a playlist engine that is not destroyed, an <img> in the container
LiveRes(s) ==
  \/ sess[s].pcState = "open"
  \/ sess[s].wsState \in {"connecting", "open"}
  \/ sess[s].hlsState \in {"loading", "parsed", "failed"}
  \/ \E i \in 1..Len(imgs) : imgs[i] = s

\* a session that acquired a handle or an element that stop() has to release
HadRes(s) ==
  \/ sess[s].pcState # "none" \/ sess[s].wsState # "none"
  \/ sess[s].hlsState # "none" \/ sess[s].imgState # "none"

\* C1: at every instant at most one session's resources (peer connection,
\* socket, playlist engine, image element) are live, whatever the order of
\* play/stop/switchMode/src changes and of the pending steps of earlier starts.
C1_SingleSession == Cardinality({s \in Sess : LiveRes(s)}) <= 1

\* a second session is live while the first one, torn down, still has its
\* negotiation POST in flight
C1_Witness ==
  \E s, t \in Sess : s < t /\ LiveRes(t) /\ sess[s].teardowns = 1 /\ sess[s].pos = "fetch"

\* C2: loading and playing are never both true.
C2_NotLoadingAndPlaying == ~(isLoading /\ isPlaying)

\* playing was set by a callback of a session that had already been stopped
C2_Witness == isPlaying /\ ~isLoading /\ live = 0 /\ nsess > 0

\* C3: error non-null implies loading false, also after a connectivity-state
\* change of the peer connection.
C3_ErrorImpliesNotLoading == error # "null" => ~isLoading

\* C4: a step of a session that is not the live one (it was stopped, or a
\* newer one was started) changes none of loading, playing, error,
\* connectionState, emits no event and touches no object of the live session.
C4_NoStaleEffect ==
  [][\A s \in Sess :
       (s # live /\ SessionStep(s)) =>
          /\ isLoading' = isLoading /\ isPlaying' = isPlaying /\ error' = error
          /\ connectionState' = connectionState /\ emitted' = emitted
          /\ live # 0 => sess'[live] = sess[live]]_vars

\* C5: the appendBuffer calls of a sub-buffer, followed by the frames still
\* queued, are exactly the frames the socket delivered, in delivery order:
\* none reordered, none appended twice, none missing once the sub-buffer exists.
Frames(n) == [i \in 1..n |-> i]

C5_FifoAppend ==
  \A t \in Sess :
    LET r == sess[t] IN
    /\ r.appended \o r.queue = Frames(Len(r.appended) + Len(r.queue))
    /\ (r.sourceBuffer /\ r.wsState = "open")
          => Len(r.appended) + Len(r.queue) = r.nextFrame - 1

\* two frames were appended, one of them from the queue, and a third one waits
C5_Witness == \E t \in Sess : Len(sess[t].appended) >= 2 /\ sess[t].queue # <<>>

\* C6: appendBuffer is called only when the buffer is not updating, and the
\* binary branch calls it only when the local flag isUpdating is false as well
\* (the updateend listener clears the flag itself before it appends).
C6_NoAppendWhileBusy ==
  [][\A t \in Sess :
       Len(sess'[t].appended) > Len(sess[t].appended) =>
          /\ ~sess[t].updating
          /\ ~sess[t].isUpdating \/ (sess[t].updateend /\ ~sess'[t].updateend)]_vars

\* the buffer is busy with the append of a frame taken from the queue, while
\* a later frame waits in the queue
C6_Witness ==
  \E t \in Sess :
    /\ sess[t].updating /\ sess[t].isUpdating
    /\ Len(sess[t].appended) >= 2 /\ sess[t].queue # <<>>

\* C7: no frame delivered on the socket of the live session is dropped: each
\* one has been passed to appendBuffer or waits in the queue.
C7_NoFrameDropped ==
  \A s \in Sess :
    (s = live /\ sess[s].wsState = "open")
       => Len(sess[s].appended) + Len(sess[s].queue) = sess[s].nextFrame - 1

\* C8: stop() leaves loading and playing false and every handle null, in every
\* state including one where no session was ever started, and a second stop()
\* changes nothing.
C8_StopIdempotent ==
  LET a == stop(Cur) IN
  /\ ~a.isLoading /\ ~a.isPlaying
  /\ a.pc = 0 /\ a.ws = 0 /\ a.hls = 0
  /\ stop(a) = a

\* stop() has run although no session was ever started
C8_Witness == nsess = 0 /\ mounted = "mounted" /\ ~isLoading

\* C9: the resources of a session are released by exactly one call of stop(),
\* and that call is over when a later session is started.
C9_TeardownOnceBeforeStart ==
  \A s \in Sess :
    /\ sess[s].teardowns <= 1
    /\ (s < nsess /\ HadRes(s)) => sess[s].teardowns = 1

\* switchMode() started the second session while the first one was still
\* awaiting the creation of its offer
C9_Witness ==
  /\ emitted.modeChange = 1 /\ live = 2
  /\ sess[1].teardowns = 1 /\ sess[1].pcState = "closed" /\ sess[1].pos = "over"

\* C10: a session during which playing is true has emitted 'playing' exactly once.
C10_PlayingOnce == (isPlaying /\ live # 0) => emitted.playing = 1

\* C11: a fatal failure of the live session (a rejected negotiation, a socket
\* error, a fatal error of the playlist engine, an image load error) ends in
\* loading false, playing false, error set, and exactly one 'error' event.
FatalFailure(s) ==
  \/ ResumeFetch(s) /\ sess'[s].pos = "over"
  \/ ResumeSetRemote(s) /\ sess'[s].pos = "over" /\ ~sess'[s].hasRemote
  \/ WsFail(s)
  \/ HlsError(s) /\ sess'[s].hlsState = "failed"
  \/ ImgError(s)

C11_FailureReported ==
  [][\A s \in Sess :
       (s = live /\ FatalFailure(s)) =>
          /\ ~isLoading' /\ ~isPlaying' /\ error' # "null"
          /\ emitted'.error = emitted.error + 1]_vars

\* C12: when the negotiation POST is answered with a non-2xx status, the catch
\* block leaves loading false and error set and emits one 'error' event and no
\* 'playing' event, and the connection of that start never emits 'playing'.
C12_PostRejected ==
  [][\A s \in Sess :
       /\ (ResumeFetch(s) /\ error' = "HTTP 500" /\ sess'[s].pos = "over") =>
             /\ ~isLoading' /\ error' # "null"
             /\ emitted'.error = emitted.error + 1 /\ emitted'.playing = emitted.playing
       /\ (sess[s].post = "HTTP 500" /\ WebRTCStep(s)) =>
             /\ emitted'.playing = emitted.playing
             /\ sess'[s].ice \notin {"connected", "completed"}]_vars

\* the POST of the live session was rejected, and the connection, left open,
\* was then given the answer to an earlier session's offer
C12_Witness ==
  \E s \in Sess :
    /\ s = live /\ sess[s].post = "HTTP 500" /\ sess[s].pcState = "open"
    /\ sess[s].hasRemote /\ sess[s].ice = "failed"

\* C13: every start (play(), switchMode(), mount, src change) creates the
\* objects of the session type of currentMode and of no other, for the
\* current src, and returns with loading true and error null.
StartedLive ==
  /\ live = nsess /\ sess[live].src = src
  /\ \A t \in Sess : LiveRes(t) => t = live
  /\ CASE currentMode = "webrtc" ->
            /\ pc = live /\ sess[live].pcState = "open" /\ sess[live].pos = "createOffer"
            /\ ws = 0 /\ hls = 0 /\ imgs = <<>> /\ video.src = ""
       [] currentMode = "mse" ->
            /\ ws = live /\ sess[live].wsState = "connecting"
            /\ video.src = "blob" /\ video.of = live
            /\ pc = 0 /\ hls = 0 /\ imgs = <<>>
       [] currentMode = "hls" ->
            /\ pc = 0 /\ ws = 0 /\ imgs = <<>>
            /\ CASE platform = "hlsjs" ->
                      hls = live /\ sess[live].hlsState = "loading" /\ video.src = ""
                 [] platform = "native" ->
                      hls = 0 /\ video.src = "m3u8" /\ video.of = live /\ live \in listeners
                 [] OTHER -> hls = 0 /\ video.src = ""
       [] currentMode = "mjpeg" ->
            /\ imgs = <<live>> /\ sess[live].imgState = "pending" /\ video.hidden
            /\ pc = 0 /\ ws = 0 /\ hls = 0 /\ video.src = ""

Starts ==
  \/ Play \/ SwitchMode
  \/ Mount /\ autoplay # "false"
  \/ SrcChange /\ autoplay = "true"

C14_StopKeepsError ==
  [][/\ stop(Cur).error = error
     /\ (Stop \/ Unmount) => error' = error
     /\ (error # "null" /\ error' = "null") => nsess' = nsess + 1]_vars

\* the playlist engine reported a fatal error and was then destroyed by
\* stop(); the message is still there
C14_Witness ==
  /\ error = "HLS Error" /\ mounted = "mounted" /\ live = 0 /\ hls = 0
  /\ nsess = 1 /\ sess[1].hlsState = "destroyed"

\* C15: switchMode(m) gives the state that stop(); setMode(m); start() gives,
\* with one 'modeChange' carrying m emitted; after it currentMode is m, the
\* session that was live has no live resource, and a session of type m is live.
C15_SwitchModeIsStopSetStart ==
  /\ [](\A m \in Modes, pf \in Platforms :
          (mounted = "mounted" /\ CanStart) =>
             LET w == Query(Call, m, pf)
                 b == start([stop(w) EXCEPT !.currentMode = m])
             IN  switchMode(w, m) =
                   [b EXCEPT !.emitted = [NoEvents EXCEPT !.modeChange = 1, !.mode = m]])
  /\ [][\A s \in Sess :
          (SwitchMode /\ s = live) =>
             /\ ~LiveRes(s)' /\ sess'[s].teardowns = IF HadRes(s) THEN 1 ELSE 0
             /\ emitted'.modeChange = 1 /\ emitted'.mode = currentMode'
             /\ live' = nsess' /\ nsess' = nsess + 1 /\ StartedLive']_vars

\* switchMode('hls') replaced the first session, the playlist engine parsed
\* the manifest: playing, with one 'playing' and one 'modeChange' emitted
C15_Witness ==
  /\ emitted.modeChange = 1 /\ emitted.mode = "hls" /\ currentMode = "hls"
  /\ nsess = 2 /\ live = 2 /\ sess[2].hlsState = "parsed"
  /\ isPlaying /\ ~isLoading /\ emitted.playing = 1

\* C16: currentMode changes only in switchMode(); a session is started only
\* by play() (also the Retry button), switchMode(), mount or a src change; no
\* callback of a session changes the mode, starts a session or creates a
\* handle, whatever it reports.
C16_NoAutoStart ==
  [][/\ currentMode' # currentMode => SwitchMode
     /\ (nsess' # nsess \/ (live' # live /\ live' # 0)) => Starts
     /\ \A s \in Sess :
          (SessionStep(s) \/ LoadedMetadata) =>
             /\ currentMode' = currentMode /\ nsess' = nsess /\ live' = live
             /\ pc' = pc /\ ws' = ws /\ hls' = hls /\ imgs' = imgs]_vars

\* the playlist engine of the live session failed fatally: the error is
\* shown, the engine is still held, the mode is the same and nothing was started
C16_Witness ==
  /\ error = "HLS Error" /\ ~isLoading /\ currentMode = "hls"
  /\ nsess = 1 /\ live = 1 /\ hls = 1 /\ sess[1].hlsState = "failed"

LiveTimers == {i \in Timers : ptz.timers[i] # ""}

C18_OneTimer == Cardinality(LiveTimers) <= 1

\* C19: every request goes to the one route that the configuration at the time
\* of the dispatch selects: the custom handler if supplied, else the Tapo API
\* if credentials are stored and a camera address is known, else the relay.
Priority(handler, credentials, address) ==
  IF handler THEN "custom" ELSE IF credentials /\ address THEN "tapo" ELSE "relay"

C19_RouteByPriority ==
  [][ptz'.inflight > ptz.inflight =>
        ptz'.sent.route = Priority(ptz.onPtz, ptz.storage, ptz.effectiveCameraIp)]_vars

PlayerState ==
  <<currentMode, isLoading, isPlaying, error, connectionState, pc, ws, hls, video, imgs,
    listeners, nsess, live, sess, emitted>>

C21_PtzLeavesPlayback == [][PtzStep => UNCHANGED PlayerState]_vars

\* the custom handler failed on a command sent while the image session was
\* playing: it is still playing, without an error
C21_Witness ==
  /\ ptz.outcome = "rejected" /\ ptz.sent.route = "custom"
  /\ isPlaying /\ ~isLoading /\ error = "null" /\ live = 1 /\ imgs = <<1>>

\* C22: between a press-end (stopPtz has run and no press-start came since:
\* ptzInterval is null) and the next press-start no repeat timer fires, for
\* every sequence of press-start and press-end events.
C22_NoTickAfterRelease ==
  [][\A id \in Timers :
       (mounted = "mounted" /\ PtzTick(id)) => ptz.ptzInterval # 0]_vars

\* C23: in the live MSE session, once the socket has opened and the
\* MediaSource has fired 'sourceopen', in either order, {type:"mse"} has been
\* sent on the socket exactly once.
C23_MseSentOnce ==
  \A s \in Sess :
    (s = live /\ sess[s].wsState = "open" /\ sess[s].sourceopen = "fired")
       => sess[s].mseSent = 1

\* C24: when the socket of the live MSE session fails or is closed by the
\* relay, error is set and loading is false, and no socket and no session is
\* created in its place.
C24_SocketLossReported ==
  [][\A s \in Sess :
       (s = live /\ (WsFail(s) \/ WsClose(s))) =>
          /\ error' # "null" /\ ~isLoading'
          /\ ws' = ws /\ nsess' = nsess /\ live' = live]_vars

\* C25: when the relay announces to the live MSE session a MIME type the
\* platform does not support, or a session is started in mode 'hls' on a
\* platform with neither hls.js nor native HLS, error is set and loading is
\* false.
\* the step in which the session's own handler receives an unsupported type
UnsupportedMime(s) ==
  /\ sess[s].wsState = "open" /\ sess[s].srv = "mime" /\ sess[s].onmessage = s
  /\ sess[s].ms = "open" /\ ~sess[s].sourceBuffer
  /\ Apply(onmessageText([Cur EXCEPT !.sess[s].srv = "stream"], s, FALSE))

C25_UnsupportedIsFatal ==
  [][/\ \A s \in Sess :
          (s = live /\ UnsupportedMime(s)) => (error' # "null" /\ ~isLoading')
     /\ (Starts /\ currentMode' = "hls" /\ platform' = "none")
          => (error' # "null" /\ ~isLoading')]_vars

\* C26: when the connectivity state of the held peer connection becomes
\* 'failed' or 'disconnected' after it was connected, error is set, the
\* connection stays open and pc keeps holding it; a connection is closed and
\* the handle released only by stop() (also on unmount) or by a start.
C26_IceLossKeepsSession ==
  [][/\ \A p \in Sess :
          ( /\ p = pc /\ IceChange(p)
            /\ sess[p].ice \in {"connected", "completed", "disconnected"}
            /\ sess'[p].ice \in {"failed", "disconnected"} ) =>
             /\ error' = "WebRTC connection failed"
             /\ pc' = p /\ sess'[p].pcState = "open"
             /\ sess'[p].teardowns = sess[p].teardowns
             /\ live' = live /\ nsess' = nsess
     /\ \A p \in Sess :
          (sess[p].pcState = "open" /\ sess'[p].pcState # "open")
             => (Stop \/ Unmount \/ Starts)
     /\ (pc # 0 /\ pc' # pc) => (Stop \/ Unmount \/ Starts)]_vars

\* the only session was connected and playing, then lost connectivity and
\* failed: the error is set, the connection is open and still held
C26_Witness ==
  /\ nsess = 1 /\ live = 1 /\ pc = 1 /\ sess[1].pcState = "open"
  /\ sess[1].ice = "failed" /\ connectionState = "failed" /\ isPlaying
  /\ error = "WebRTC connection failed" /\ sess[1].teardowns = 0

C28_GatheringWait ==
  /\ [](\A s \in Sess :
          (s = live /\ sess[s].pos = "gather")
             => (isLoading /\ error = "null" /\ sess[s].gath # "complete"))
  /\ [][\A s \in Sess :
          (sess[s].pos # "fetch" /\ sess'[s].pos = "fetch")
             => (sess[s].pos \in {"setLocal", "gather"} /\ sess'[s].gath = "complete")]_vars

\* C29: in a mounted player, loading true implies that a session was started
\* and not stopped since, and that neither playing nor an error has been
\* reported; a player in which no session was ever started is not loading.
C29_LoadingMeansStarting ==
  (mounted = "mounted" /\ isLoading) => (live # 0 /\ ~isPlaying /\ error = "null")

\* C30: once the component is unmounted no peer connection, socket or
\* playlist engine is open or held, no PTZ repeat timer is live, and no timer
\* calls sendPtzCommand any more.  (The <img> of an image session leaves the
\* document together with the container.)
Released(s) ==
  /\ sess[s].pcState # "open"
  /\ sess[s].wsState \notin {"connecting", "open"}
  /\ sess[s].hlsState \notin {"loading", "parsed", "failed"}

C30_UnmountReleasesAll ==
  /\ [](mounted = "unmounted" =>
          /\ pc = 0 /\ ws = 0 /\ hls = 0 /\ \A s \in Sess : Released(s)
          /\ LiveTimers = {})
  /\ [][\A id \in Timers : ~(mounted = "unmounted" /\ PtzTick(id))]_vars
====
